---- MODULE Spec2Model ----
(***************************************************************************)
(* InspireIt (src/app.py): a Streamlit application.  Every user event      *)
(* starts one script run of main(): init_session_state, the sidebar        *)
(* (init_config_options), the navigation-flag check and then the page      *)
(* function of st.session_state.page.  st.rerun() stops the run and        *)
(* starts another one with no widget fired.                                *)
(*                                                                         *)
(* A Python str is modelled as a Text: a sequence of tokens (each token an *)
(* atomic run of characters), so that str.replace, str.strip and str.join  *)
(* act on it.  A value produced by json.loads is a tagged record (JNull,   *)
(* JStr, JList, JObj).  Python None is JNull.                              *)
(***************************************************************************)
EXTENDS Integers, Sequences, FiniteSets, TLC

VARIABLES
    session_state,   \* st.session_state: a function from the keys present to their values
    rerun_pending,   \* st.rerun() was called: the next script run has no widget fired
    run              \* what the last script run showed and did (widget fired, page, messages, backend calls)

vars == <<session_state, rerun_pending, run>>

(***************************************************************************)
(* Bounds of the model.                                                    *)
(***************************************************************************)
MaxDomains == 2   \* domain_inputs grows by "add_domain" up to this length
MaxChat == 3      \* a chat message is sent only while chat_history leaves room for two entries

(***************************************************************************)
(* Texts.                                                                  *)
(***************************************************************************)
EmptyText == <<>>

\* Python truthiness of a str
Truthy(text) == Len(text) > 0

RECURSIVE Join(_, _)
\* sep.join(parts)
Join(parts, sep) ==
    IF Len(parts) = 0 THEN EmptyText
    ELSE IF Len(parts) = 1 THEN parts[1]
    ELSE parts[1] \o sep \o Join(Tail(parts), sep)

RECURSIVE ReplaceToken(_, _, _)
\* text.replace(old, new) where old is one token and new a Text
ReplaceToken(text, old, new) ==
    IF Len(text) = 0 THEN EmptyText
    ELSE (IF Head(text) = old THEN new ELSE <<Head(text)>>)
            \o ReplaceToken(Tail(text), old, new)

Whitespace == {" ", "\n"}

RECURSIVE LStrip(_)
LStrip(text) ==
    IF Len(text) > 0 /\ Head(text) \in Whitespace THEN LStrip(Tail(text)) ELSE text

RECURSIVE RStrip(_)
RStrip(text) ==
    IF Len(text) > 0 /\ text[Len(text)] \in Whitespace
    THEN RStrip(SubSeq(text, 1, Len(text) - 1)) ELSE text

\* text.strip()
Strip(text) == RStrip(LStrip(text))

(***************************************************************************)
(* JSON values (what json.loads returns) and their text.                   *)
(***************************************************************************)
JNull == [kind |-> "null"]
JStr(text) == [kind |-> "str", s |-> text]
JList(items) == [kind |-> "list", items |-> items]
JObj(fields) == [kind |-> "obj", fields |-> fields]

None == JNull

\* a dict key is a str: the Text of one token
Key(name) == <<name>>

\* key in obj, for a dict
HasKey(obj, name) == Key(name) \in DOMAIN obj.fields

\* dict.get(key, default) on a value that is a dict
Get(obj, name, default) ==
    IF HasKey(obj, name) THEN obj.fields[Key(name)] ELSE default

Quote == "\""
Backslash == "\\"

\* the tokens json.loads accepts after a backslash inside a string
JsonEscapable == {Quote, Backslash, "/", "b", "f", "n", "r", "t"}

Fail(i) == [ok |-> FALSE, val |-> JNull, next |-> i]
Done(v, i) == [ok |-> TRUE, val |-> v, next |-> i]

RECURSIVE SkipWs(_, _)
\* the first index at or after i that holds no whitespace
SkipWs(t, i) ==
    IF i <= Len(t) /\ t[i] \in Whitespace THEN SkipWs(t, i + 1) ELSE i

RECURSIVE ParseString(_, _, _)
\* the str whose opening quote precedes index i; acc is what was read so far.
\* A backslash must be followed by an escapable character; a raw control
\* character (newline) inside a string is an error (strict mode).
ParseString(t, i, acc) ==
    IF i > Len(t) THEN Fail(i)
    ELSE IF t[i] = Quote THEN Done(acc, i + 1)
    ELSE IF t[i] = Backslash
         THEN IF i + 1 <= Len(t) /\ t[i + 1] \in JsonEscapable
              THEN ParseString(t, i + 2, Append(acc, t[i + 1]))
              ELSE Fail(i)
    ELSE IF t[i] = "\n" THEN Fail(i)
    ELSE ParseString(t, i + 1, Append(acc, t[i]))

RECURSIVE ParseValue(_, _)
RECURSIVE ParseItems(_, _, _)
RECURSIVE ParseMembers(_, _, _)

\* the JSON value that starts at index i (whitespace skipped by the caller)
ParseValue(t, i) ==
    IF i > Len(t) THEN Fail(i)
    ELSE IF t[i] = "null" THEN Done(JNull, i + 1)
    ELSE IF t[i] = Quote
         THEN LET r == ParseString(t, i + 1, EmptyText)
              IN  IF r.ok THEN Done(JStr(r.val), r.next) ELSE Fail(r.next)
    ELSE IF t[i] = "["
         THEN LET j == SkipWs(t, i + 1)
              IN  IF j <= Len(t) /\ t[j] = "]" THEN Done(JList(<<>>), j + 1)
                  ELSE ParseItems(t, j, <<>>)
    ELSE IF t[i] = "{"
         THEN LET j == SkipWs(t, i + 1)
              IN  IF j <= Len(t) /\ t[j] = "}" THEN Done(JObj(<<>>), j + 1)
                  ELSE ParseMembers(t, j, <<>>)
    ELSE Fail(i)

\* the items of a list from index i on: value ("," value)* "]"
ParseItems(t, i, acc) ==
    LET r == ParseValue(t, i)
        j == SkipWs(t, r.next)
    IN  IF ~r.ok \/ j > Len(t) THEN Fail(j)
        ELSE IF t[j] = "]" THEN Done(JList(Append(acc, r.val)), j + 1)
        ELSE IF t[j] = "," THEN ParseItems(t, SkipWs(t, j + 1), Append(acc, r.val))
        ELSE Fail(j)

\* the members of an object from index i on: string ":" value ("," ...)* "}";
\* a repeated key keeps its last value
ParseMembers(t, i, acc) ==
    IF i > Len(t) \/ t[i] # Quote THEN Fail(i)
    ELSE LET k == ParseString(t, i + 1, EmptyText)
             c == SkipWs(t, k.next)
         IN  IF ~k.ok \/ c > Len(t) \/ t[c] # ":" THEN Fail(c)
             ELSE LET r == ParseValue(t, SkipWs(t, c + 1))
                      j == SkipWs(t, r.next)
                      more == (k.val :> r.val) @@ acc
                  IN  IF ~r.ok \/ j > Len(t) THEN Fail(j)
                      ELSE IF t[j] = "}" THEN Done(JObj(more), j + 1)
                      ELSE IF t[j] = "," THEN ParseMembers(t, SkipWs(t, j + 1), more)
                      ELSE Fail(j)

\* json.loads(text): ok = FALSE stands for json.JSONDecodeError
json_loads(text) ==
    LET r == ParseValue(text, SkipWs(text, 1))
    IN  IF r.ok /\ SkipWs(text, r.next) = Len(text) + 1
        THEN [ok |-> TRUE, val |-> r.val]
        ELSE [ok |-> FALSE, val |-> JNull]

(***************************************************************************)
(* The text of a JSON value, as a completion model writes it.              *)
(***************************************************************************)
RECURSIVE DumpsString(_)
DumpsString(text) ==
    IF Len(text) = 0 THEN EmptyText
    ELSE (IF Head(text) \in {Quote, Backslash} THEN <<Backslash, Head(text)>>
          ELSE <<Head(text)>>) \o DumpsString(Tail(text))

\* the keys of a dict in a fixed order
RECURSIVE SetToSeq(_)
SetToSeq(S) ==
    IF S = {} THEN <<>>
    ELSE LET x == CHOOSE y \in S : TRUE IN <<x>> \o SetToSeq(S \ {x})

RECURSIVE Dumps(_)
RECURSIVE DumpsEach(_)
RECURSIVE DumpsMembers(_, _)

Dumps(v) ==
    CASE v.kind = "null" -> <<"null">>
      [] v.kind = "str"  -> <<Quote>> \o DumpsString(v.s) \o <<Quote>>
      [] v.kind = "list" -> <<"[">> \o Join(DumpsEach(v.items), <<",">>) \o <<"]">>
      [] v.kind = "obj"  -> <<"{">> \o Join(DumpsMembers(v.fields, SetToSeq(DOMAIN v.fields)), <<",">>) \o <<"}">>

DumpsEach(items) ==
    IF Len(items) = 0 THEN <<>> ELSE <<Dumps(Head(items))>> \o DumpsEach(Tail(items))

DumpsMembers(fields, keys) ==
    IF Len(keys) = 0 THEN <<>>
    ELSE <<(<<Quote>> \o DumpsString(Head(keys)) \o <<Quote, ":">> \o Dumps(fields[Head(keys)]))>>
            \o DumpsMembers(fields, Tail(keys))

(***************************************************************************)
(* Python operations on values that json.loads produced.                   *)
(***************************************************************************)
\* bool(v)
PyTruthy(v) ==
    CASE v.kind = "null" -> FALSE
      [] v.kind = "str"  -> Len(v.s) > 0
      [] v.kind = "list" -> Len(v.items) > 0
      [] v.kind = "obj"  -> DOMAIN v.fields # {}

\* iter(v): ok = FALSE stands for TypeError (None is not iterable).  A str
\* yields its characters and a dict its keys: both are strs.
PyIter(v) ==
    CASE v.kind = "null" -> [ok |-> FALSE, items |-> <<>>]
      [] v.kind = "str"  -> [ok |-> TRUE, items |-> [i \in 1..Len(v.s) |-> JStr(<<v.s[i]>>)]]
      [] v.kind = "list" -> [ok |-> TRUE, items |-> v.items]
      [] v.kind = "obj"  -> [ok |-> TRUE, items |-> [i \in 1..Cardinality(DOMAIN v.fields) |-> JStr(SetToSeq(DOMAIN v.fields)[i])]]

\* sep.join(v): ok = FALSE stands for TypeError (v is not iterable, or an
\* item of it is not a str)
PyJoin(sep, v) ==
    LET it == PyIter(v)
    IN  IF it.ok /\ \A i \in 1..Len(it.items) : it.items[i].kind = "str"
        THEN [ok |-> TRUE, text |-> Join([i \in 1..Len(it.items) |-> it.items[i].s], sep)]
        ELSE [ok |-> FALSE, text |-> EmptyText]

(***************************************************************************)
(* st.session_state and its defaults.                                      *)
(***************************************************************************)
Pages == {"home", "get_idea", "review_idea", "final_paper", "explore"}

Keys == {"specifications", "generate_new", "page", "domain_inputs", "ideas",
         "messages", "chat_history", "previous_prompt", "selected_idea",
         "final_idea", "navigating_to_final"}

\* Seed without the test for the key
Seed_always(ss, key, value) == (key :> value) @@ ss

\* if key not in st.session_state: st.session_state[key] = value
Seed(ss, key, value) ==
    IF key \in DOMAIN ss THEN ss ELSE (key :> value) @@ ss

init_session_state(ss) ==
    LET s1  == Seed(ss,  "specifications", EmptyText)
        s2  == Seed(s1,  "generate_new", FALSE)
        s3  == Seed(s2,  "page", "home")
        s4  == Seed(s3,  "domain_inputs", <<EmptyText>>)
        s5  == Seed(s4,  "ideas", JList(<<>>))
        s6  == Seed(s5,  "messages", <<>>)
        s7  == Seed(s6,  "chat_history", <<>>)
        s8  == Seed(s7,  "previous_prompt", EmptyText)
        s9  == Seed(s8,  "selected_idea", None)
        s10 == Seed(s9,  "final_idea", None)
    IN  Seed(s10, "navigating_to_final", FALSE)

\* the session of a first visit: no key is present
EmptySession == <<>>

(***************************************************************************)
(* The cleaning and parsing of a completion.                               *)
(***************************************************************************)
FenceJson == "'''json"   \* stands for the three backquotes followed by json
Fence == "'''"           \* stands for the three backquotes

\* response.strip().replace(FenceJson, "").replace(Fence, "")
CleanResponse(response) ==
    ReplaceToken(ReplaceToken(Strip(response), FenceJson, EmptyText), Fence, EmptyText)

\* result.replace("$", "\$") in complete
EscapeDollars(result) == ReplaceToken(result, "$", <<Backslash, "$">>)

\* json.loads(cleaned_response): ok = FALSE stands for json.JSONDecodeError
LoadCleaned(response) == json_loads(CleanResponse(response))

(***************************************************************************)
(* The inputs: what the user types and what the backend answers.           *)
(***************************************************************************)
DomainTexts == {<<"robotics">>}
SpecTexts == {<<"low cost">>}
IdeaTexts == {EmptyText, <<"my idea">>}
TopicTexts == {EmptyText, <<"nlp">>}
ChatTexts == {<<"what is new?">>}

IdeaA ==
    JObj((Key("title") :> JStr(<<"A">>))
         @@ (Key("description") :> JStr(<<"B">>))
         @@ (Key("opportunities") :> JList(<<JStr(<<"o1">>)>>))
         @@ (Key("drawbacks") :> JList(<<JStr(<<"d1">>)>>))
         @@ (Key("references") :> JList(<<JStr(<<"r1">>), JStr(<<"r2">>)>>)))

IdeaB ==
    JObj((Key("title") :> JStr(<<"C">>))
         @@ (Key("description") :> JStr(<<"D">>)))

\* an idea whose description names a price
IdeaP ==
    JObj((Key("title") :> JStr(<<"P">>))
         @@ (Key("description") :> JStr(<<"costs", "$", "5">>)))

IdeasDoc(items) == JObj(Key("ideas") :> JList(items))

FencedAB == <<FenceJson, "\n">> \o Dumps(IdeasDoc(<<IdeaA, IdeaB>>)) \o <<"\n", Fence>>
PlainB == Dumps(IdeasDoc(<<IdeaB>>))
Truncated == SubSeq(PlainB, 1, Len(PlainB) - 2)
NoIdeasKey == Dumps(JObj(Key("error") :> JStr(<<"overloaded">>)))
Priced == Dumps(IdeasDoc(<<IdeaP>>))
\* a batch whose second element is a string, not an idea object
Mixed == Dumps(IdeasDoc(<<IdeaB, JStr(<<"oops">>)>>))

\* completion outputs for the idea prompt
IdeaReplies == {FencedAB, PlainB, Truncated, NoIdeasKey, Priced, Mixed}

\* the completion output for the paper summaries prompt
SummaryReply ==
    Dumps(JObj(Key("paper_summaries") :>
                 JList(<<JObj((Key("title") :> JStr(<<"P">>)) @@ (Key("summary") :> JStr(<<"S">>)))>>)))

\* completion outputs for the final paper prompt
PaperDoc ==
    JObj((Key("abstract") :> JStr(<<"abstract">>))
         @@ (Key("references") :> JList(<<JStr(<<"r1">>)>>))
         @@ (Key("opportunities") :> JList(<<>>)))
\* valid JSON that is not an object: a list, a bare string
PaperList == Dumps(JList(<<JStr(<<"r1">>)>>))
PaperText == Dumps(JStr(<<"sorry">>))
PaperReplies == {Dumps(PaperDoc), SubSeq(Dumps(PaperDoc), 1, 3), PaperList, PaperText}

\* completion outputs for the chat prompt
ChatReplies == {<<"costs", "$", "5">>}

SearchOk == [ok |-> TRUE, results |-> <<[chunk |-> <<"a paper">>]>>]
SearchError == [ok |-> FALSE, results |-> <<>>]
Reply(text) == [ok |-> TRUE, text |-> text]
CompleteError == [ok |-> FALSE, text |-> EmptyText]

\* the backend's answers during one script run: to the page's retrieval and
\* completion calls, and to those of generate_summaries_paper
Backend(search, completion, summary_search, summary_complete) ==
    [search |-> search, complete |-> completion,
     summary_search |-> summary_search, summary_complete |-> summary_complete]

Unused == Backend(SearchError, CompleteError, SearchError, CompleteError)

Answers(replies) ==
    {Backend(SearchError, CompleteError, SearchOk, Reply(SummaryReply)),
     Backend(SearchOk, CompleteError, SearchOk, Reply(SummaryReply))}
    \cup {Backend(SearchOk, Reply(r), SearchOk, Reply(SummaryReply)) : r \in replies}

IdeaAnswers ==
    Answers(IdeaReplies) \cup {Backend(SearchOk, Reply(FencedAB), SearchOk, CompleteError)}

\* the answers the backend may give in a run that renders this page
AnswersFor(page) ==
    CASE page = "get_idea"    -> IdeaAnswers
      [] page = "final_paper" -> Answers(PaperReplies)
      [] page = "explore"     -> Answers(ChatReplies)
      [] OTHER                -> {Unused}

(***************************************************************************)
(* EscapeDollars and LoadCleaned tabulated over the completions above, so  *)
(* that a script run looks the value up; a text outside the table is       *)
(* computed.                                                               *)
(***************************************************************************)
ResponseTexts == IdeaReplies \cup PaperReplies \cup ChatReplies \cup {SummaryReply}
EscapedTable == [t \in ResponseTexts |-> EscapeDollars(t)]
CompletionTexts == {EscapedTable[t] : t \in ResponseTexts}
LoadedTable == [t \in CompletionTexts |-> LoadCleaned(t)]

Escaped(result) ==
    IF result \in ResponseTexts THEN EscapedTable[result] ELSE EscapeDollars(result)

ParseResponse(response) ==
    IF response \in CompletionTexts THEN LoadedTable[response] ELSE LoadCleaned(response)

(***************************************************************************)
(* The backend: the two stored procedures.                                 *)
(***************************************************************************)
MODELS == <<"mistral-large2", "llama3.1-70b", "llama3.1-8b">>

\* the sidebar's defaults: st.session_state.model_name and num_retrieved_chunks
model_name == MODELS[1]
num_retrieved_chunks == 5
selected_cortex_search_service == "service"

\* one exchange with the backend: the stored procedure called, the params
\* sent (json.dumps of a dict) and what the backend answered
SearchCall(query, answer) ==
    [proc |-> "CORTEX_SEARCH_PROC",
     params |-> [query |-> query,
                 service_name |-> selected_cortex_search_service,
                 num_chunks |-> num_retrieved_chunks],
     answer |-> answer]

CompleteCall(model, prompt, answer) ==
    [proc |-> "CORTEX_COMPLETE_PROC",
     params |-> [prompt |-> prompt, model_name |-> model],
     answer |-> answer]

RECURSIVE ContextStr(_, _)
\* for i, r in enumerate(results): context_str += f"Context document {i+1}: {r['chunk']} \n\n"
ContextStr(results, i) ==
    IF i > Len(results) THEN EmptyText
    ELSE <<"Context document", ToString(i), ":">> \o results[i].chunk \o <<"\n\n">>
            \o ContextStr(results, i + 1)

\* query_cortex_search_service(query, columns, filter) with the backend's
\* answer: ok = FALSE stands for the exception cursor.execute raises
query_cortex_search_service(query, columns, filter, answer) ==
    [ok |-> answer.ok,
     call |-> SearchCall(query, answer),
     context_str |-> IF answer.ok THEN ContextStr(answer.results, 1) ELSE EmptyText,
     results |-> IF answer.ok THEN answer.results ELSE <<>>]

\* complete(model, prompt) with the backend's answer: result.replace("$", "\$")
complete(model, prompt, answer) ==
    [ok |-> answer.ok,
     call |-> CompleteCall(model, prompt, answer),
     text |-> IF answer.ok THEN Escaped(answer.text) ELSE EmptyText]

SearchColumns == {"chunk", "file_url", "relative_path"}
EnglishFilter == [language |-> "English"]

(***************************************************************************)
(* Prompt builders.  Each returns ok = FALSE when its retrieval call       *)
(* raised, the call it made, and the prompt.                               *)
(***************************************************************************)
\* generate_idea_prompt with the specifications left out of the query and
\* the domains of the prompt cut to the first one
generate_idea_prompt_short(domains, specifications, answer) ==
    [ok |-> answer.ok,
     call |-> SearchCall(Join(domains, <<" ">>), answer),
     prompt |-> <<"[INST] generate creative research ideas. Domains:">>
                \o domains[1]
                \o <<"User Specifications:">> \o specifications
                \o <<"Consider this relevant context:">>
                \o (IF answer.ok THEN ContextStr(answer.results, 1) ELSE EmptyText)
                \o <<"JSON format: ideas. Generate 3 innovative ideas. [/INST]">>]

generate_idea_prompt(domains, specifications, answer) ==
    LET r == query_cortex_search_service(Join(domains \o <<specifications>>, <<" ">>),
                                         SearchColumns, EnglishFilter, answer)
    IN  [ok |-> r.ok,
         call |-> r.call,
         prompt |-> <<"[INST] generate creative research ideas. Domains:">>
                    \o Join(domains, <<", ">>)
                    \o <<"User Specifications:">> \o specifications
                    \o <<"Consider this relevant context:">> \o r.context_str
                    \o <<"JSON format: ideas. Generate 3 innovative ideas. [/INST]">>]

generate_final_paper_prompt(idea, topics, answer) ==
    LET r == query_cortex_search_service(idea \o <<" ">> \o topics,
                                         SearchColumns, EnglishFilter, answer)
    IN  [ok |-> r.ok,
         call |-> r.call,
         prompt |-> <<"[INST] generate a complete research paper outline. Idea:">> \o idea
                    \o <<"Topics:">> \o topics
                    \o <<"Consider this relevant context:">> \o r.context_str
                    \o <<"JSON format: abstract, references, opportunities. [/INST]">>]

explore_prompt(prompt, context_str) ==
    <<"[INST] Consider this context:">> \o context_str
        \o <<"User question:">> \o prompt
        \o <<"Provide a helpful and informative response. [/INST]">>

(***************************************************************************)
(* What one script run yields: the session state it leaves, whether it     *)
(* ended in st.rerun(), whether an exception escaped the script, the       *)
(* messages (st.error, st.warning, headings) it showed, the backend calls  *)
(* it made and the number of "Develop Idea" buttons it rendered.           *)
(***************************************************************************)
Result(ss, rerun, raised, shown, calls, buttons) ==
    [ss |-> ss, rerun |-> rerun, raised |-> raised, shown |-> shown,
     calls |-> calls, buttons |-> buttons]

\* a user event: the widget that fired, with the index and the texts it carries
Event(widget, index, text, text2) ==
    [widget |-> widget, index |-> index, text |-> text, text2 |-> text2]

NoEvent == Event("none", 0, EmptyText, EmptyText)

\* home_button with a reset of the chat added
home_button_clearing(ss) ==
    Result([ss EXCEPT !.page = "home", !.chat_history = <<>>], TRUE, FALSE, {}, <<>>, 0)

home_button(ss) ==
    Result([ss EXCEPT !.page = "home"], TRUE, FALSE, {}, <<>>, 0)

\* home_page with the targets of two buttons exchanged
home_page_crossed(ss, ev) ==
    CASE ev.widget = "get_idea_btn" ->
            Result([ss EXCEPT !.page = "get_idea"], TRUE, FALSE, {}, <<>>, 0)
      [] ev.widget = "review_btn" ->
            Result([ss EXCEPT !.selected_idea = None, !.page = "explore"],
                   TRUE, FALSE, {}, <<>>, 0)
      [] ev.widget = "explore_btn" ->
            Result([ss EXCEPT !.page = "review_idea"], TRUE, FALSE, {}, <<>>, 0)
      [] OTHER -> Result(ss, FALSE, FALSE, {}, <<>>, 0)

\* home_page whose "Analyze Now" keeps the previous selection
home_page_keeping(ss, ev) ==
    CASE ev.widget = "get_idea_btn" ->
            Result([ss EXCEPT !.page = "get_idea"], TRUE, FALSE, {}, <<>>, 0)
      [] ev.widget = "review_btn" ->
            Result([ss EXCEPT !.page = "review_idea"], TRUE, FALSE, {}, <<>>, 0)
      [] ev.widget = "explore_btn" ->
            Result([ss EXCEPT !.page = "explore"], TRUE, FALSE, {}, <<>>, 0)
      [] OTHER -> Result(ss, FALSE, FALSE, {}, <<>>, 0)

home_page(ss, ev) ==
    CASE ev.widget = "get_idea_btn" ->
            Result([ss EXCEPT !.page = "get_idea"], TRUE, FALSE, {}, <<>>, 0)
      [] ev.widget = "review_btn" ->
            Result([ss EXCEPT !.selected_idea = None, !.page = "review_idea"],
                   TRUE, FALSE, {}, <<>>, 0)
      [] ev.widget = "explore_btn" ->
            Result([ss EXCEPT !.page = "explore"], TRUE, FALSE, {}, <<>>, 0)
      [] OTHER -> Result(ss, FALSE, FALSE, {}, <<>>, 0)

\* generate_summaries_paper(references) under the backend's answers b:
\* raised = TRUE when an exception leaves the function.  The function is
\* written in stages, each taking what the stage before it computed.

\* json.loads of the cleaned response and the "paper_summaries" of its value
summaries_parsed(calls, parsed) ==
    IF ~parsed.ok THEN [raised |-> FALSE, calls |-> calls, val |-> JList(<<>>)]
    ELSE IF parsed.val.kind # "obj" THEN [raised |-> TRUE, calls |-> calls, val |-> JNull]
    ELSE [raised |-> FALSE, calls |-> calls,
          val |-> Get(parsed.val, "paper_summaries", JList(<<>>))]

\* after complete(model_name, prompt) gave c
summaries_completed(call, c) ==
    IF ~c.ok THEN [raised |-> TRUE, calls |-> <<call, c.call>>, val |-> JNull]
    ELSE summaries_parsed(<<call, c.call>>, ParseResponse(c.text))

\* after query_cortex_search_service gave r
summaries_retrieved(r, b) ==
    IF ~r.ok THEN [raised |-> TRUE, calls |-> <<r.call>>, val |-> JNull]
    ELSE summaries_completed(r.call,
            complete(model_name,
                     <<"[INST] Based on the following context about research papers:">>
                        \o r.context_str \o <<"JSON format: paper_summaries. [/INST]">>,
                     b.summary_complete))

\* after " ".join(references) gave q
summaries_joined(q, b) ==
    IF ~q.ok THEN [raised |-> TRUE, calls |-> <<>>, val |-> JNull]
    ELSE summaries_retrieved(
            query_cortex_search_service(q.text, SearchColumns, EnglishFilter, b.summary_search), b)

generate_summaries_paper(references, b) ==
    IF ~PyTruthy(references) THEN [raised |-> FALSE, calls |-> <<>>, val |-> JList(<<>>)]
    ELSE summaries_joined(PyJoin(<<" ">>, references), b)



\* for x in v: x.get(...): every item must be a dict
AllDicts(v) ==
    LET it == PyIter(v)
    IN  it.ok /\ \A i \in 1..Len(it.items) : it.items[i].kind = "obj"

ErrorGenerating == "Error generating ideas"

\* develop_idea navigating without storing final_idea
develop_idea_unset(ss, idea, calls, buttons) ==
    Result([ss EXCEPT !.selected_idea = idea,
                      !.generate_new = FALSE,
                      !.page = "final_paper",
                      !.navigating_to_final = TRUE],
           TRUE, FALSE, {}, calls, buttons)

\* the "Develop Idea" handler of the idea rendered at index i
develop_idea(ss, idea, calls, buttons) ==
    LET topics == PyJoin(<<", ">>, Get(idea, "references", JList(<<>>)))
        chosen == [ss EXCEPT !.selected_idea = idea]
    IN  IF ~topics.ok
        THEN Result(chosen, FALSE, FALSE, {ErrorGenerating}, calls, buttons)
        ELSE Result([chosen EXCEPT
                        !.final_idea = JObj((Key("idea") :> Get(idea, "description", JStr(EmptyText)))
                                            @@ (Key("topics") :> JStr(topics.text))),
                        !.generate_new = FALSE,
                        !.page = "final_paper",
                        !.navigating_to_final = TRUE],
                    TRUE, FALSE, {}, calls, buttons)

RECURSIVE display_ideas(_, _, _, _, _, _)
RECURSIVE display_idea(_, _, _, _, _, _, _)
\* the loop "for i, idea in enumerate(st.session_state.ideas)" from item i on
\* (i counts from 1; the button's key is develop_{i-1}); an exception in it
\* is caught by "except Exception" and shown
display_ideas(ss, items, i, calls, ev, b) ==
    IF i > Len(items) THEN Result(ss, FALSE, FALSE, {}, calls, i - 1)
    ELSE IF items[i].kind # "obj"
    THEN Result(ss, FALSE, FALSE, {ErrorGenerating}, calls, i - 1)
    ELSE display_idea(ss, items, i, calls, ev, b,
                      generate_summaries_paper(Get(items[i], "references", JList(<<>>)), b))

\* the body of the loop for item i, once generate_summaries_paper gave s
display_idea(ss, items, i, calls, ev, b, s) ==
    IF s.raised \/ ~AllDicts(s.val)
    THEN Result(ss, FALSE, FALSE, {ErrorGenerating}, calls \o s.calls, i - 1)
    ELSE IF ~PyIter(Get(items[i], "drawbacks", JList(<<>>))).ok
           \/ ~PyIter(Get(items[i], "opportunities", JList(<<>>))).ok
    THEN Result(ss, FALSE, FALSE, {ErrorGenerating}, calls \o s.calls, i - 1)
    ELSE IF ev.widget = "develop" /\ ev.index = i
    THEN develop_idea(ss, items[i], calls \o s.calls, i)
    ELSE display_ideas(ss, items, i + 1, calls \o s.calls, ev, b)



\* "ideas" in ideas_data: ok = FALSE stands for TypeError
Contains(data, name) ==
    CASE data.kind = "null" -> [ok |-> FALSE, val |-> FALSE]
      [] data.kind = "str"  -> [ok |-> TRUE, val |-> \E i \in 1..Len(data.s) : data.s[i] = name]
      [] data.kind = "list" -> [ok |-> TRUE, val |-> \E i \in 1..Len(data.items) : data.items[i] = JStr(Key(name))]
      [] data.kind = "obj"  -> [ok |-> TRUE, val |-> HasKey(data, name)]

\* generate_and_display_ideas, in stages.

\* after st.session_state.ideas = ideas_data["ideas"]: the display loop
ideas_stored(stored, calls, ev, b) ==
    IF ~PyIter(stored.ideas).ok
    THEN Result(stored, FALSE, FALSE, {ErrorGenerating}, calls, 0)
    ELSE display_ideas(stored, PyIter(stored.ideas).items, 1, calls, ev, b)

\* ideas_parsed with the stored ideas dropped when the response does not parse
ideas_parsed_clearing(ss, calls, parsed, ev, b) ==
    IF ~parsed.ok \/ ~Contains(parsed.val, "ideas").ok
    THEN Result([ss EXCEPT !.ideas = JList(<<>>)], FALSE, FALSE, {ErrorGenerating}, calls, 0)
    ELSE IF ~Contains(parsed.val, "ideas").val
    THEN Result(ss, FALSE, FALSE, {"Invalid response format"}, calls, 0)
    ELSE IF parsed.val.kind # "obj"
    THEN Result(ss, FALSE, FALSE, {ErrorGenerating}, calls, 0)
    ELSE ideas_stored([ss EXCEPT !.ideas = parsed.val.fields[Key("ideas")]], calls, ev, b)

\* after json.loads(cleaned_response) gave parsed
ideas_parsed(ss, calls, parsed, ev, b) ==
    IF ~parsed.ok \/ ~Contains(parsed.val, "ideas").ok
    THEN Result(ss, FALSE, FALSE, {ErrorGenerating}, calls, 0)
    ELSE IF ~Contains(parsed.val, "ideas").val
    THEN Result(ss, FALSE, FALSE, {"Invalid response format"}, calls, 0)
    ELSE IF parsed.val.kind # "obj"
    THEN Result(ss, FALSE, FALSE, {ErrorGenerating}, calls, 0)
    ELSE ideas_stored([ss EXCEPT !.ideas = parsed.val.fields[Key("ideas")]], calls, ev, b)

\* after complete(model_name, prompt) gave c
ideas_completed(ss, call, c, ev, b) ==
    IF ~c.ok THEN Result(ss, FALSE, TRUE, {}, <<call, c.call>>, 0)
    ELSE ideas_parsed(ss, <<call, c.call>>, ParseResponse(c.text), ev, b)

\* after generate_idea_prompt gave p
ideas_prompted(ss, p, ev, b) ==
    IF ~p.ok THEN Result(ss, FALSE, TRUE, {}, <<p.call>>, 0)
    ELSE ideas_completed(ss, p.call, complete(model_name, p.prompt, b.complete), ev, b)

generate_and_display_ideas(ss, domain_inputs, specifications, ev, b) ==
    ideas_prompted(ss,
                   generate_idea_prompt(SelectSeq(domain_inputs, Truthy), specifications, b.search),
                   ev, b)



FillWarning == "Please fill in at least one domain and specifications"

get_idea_page(ss, ev, b) ==
    IF ev.widget = "home_button" THEN home_button(ss)
    ELSE LET typed == IF ev.widget = "domain"
                      THEN [ss.domain_inputs EXCEPT ![ev.index] = ev.text]
                      ELSE ss.domain_inputs
             specifications == IF ev.widget = "specifications" THEN ev.text
                               ELSE ss.specifications
             s1 == [ss EXCEPT !.domain_inputs = typed, !.specifications = specifications]
         IN  IF ev.widget = "add_domain"
             THEN Result([ss EXCEPT !.domain_inputs = Append(typed, EmptyText)],
                         TRUE, FALSE, {}, <<>>, 0)
             ELSE IF ev.widget = "generate" \/ ~s1.generate_new
             THEN IF (\E i \in 1..Len(typed) : Truthy(typed[i])) /\ Truthy(specifications)
                  THEN generate_and_display_ideas(s1, typed, specifications, ev, b)
                  ELSE Result(s1, FALSE, FALSE, {FillWarning}, <<>>, 0)
             ELSE Result(s1, FALSE, FALSE, {}, <<>>, 0)

\* str(v) inside an f-string
PyStr(v) ==
    CASE v.kind = "str"  -> v.s
      [] v.kind = "null" -> <<"None">>
      [] OTHER           -> Dumps(v)

\* the "Previous Analysis" block of review_idea_page runs without an exception
PrefillOk(idea) ==
    /\ idea.kind = "obj"
    /\ PyIter(Get(idea, "drawbacks", JList(<<>>))).ok
    /\ PyIter(Get(idea, "opportunities", JList(<<>>))).ok
    /\ PyJoin(<<", ">>, Get(idea, "references", JList(<<>>))).ok

ProvideWarning == "Please provide both idea details and topics"

\* review_idea_page that asks for only one of the two texts
review_idea_page_lenient(ss, ev) ==
    IF ev.widget = "home_button" THEN home_button(ss)
    ELSE IF ev.widget = "generate_paper"
    THEN IF Truthy(ev.text) \/ Truthy(ev.text2)
         THEN Result([ss EXCEPT
                        !.final_idea = JObj((Key("idea") :> JStr(ev.text))
                                            @@ (Key("topics") :> JStr(ev.text2))),
                        !.page = "final_paper"],
                     TRUE, FALSE, {}, <<>>, 0)
         ELSE Result(ss, FALSE, FALSE, {"Please provide both idea details and topics"}, <<>>, 0)
    ELSE Result(ss, FALSE, FALSE, {}, <<>>, 0)

review_idea_page(ss, ev) ==
    LET prefill == PyTruthy(ss.selected_idea)
        shown == IF prefill THEN {"Previous Analysis"} ELSE {}
    IN  IF ev.widget = "home_button" THEN home_button(ss)
        ELSE IF prefill /\ ~PrefillOk(ss.selected_idea)
        THEN Result(ss, FALSE, TRUE, shown, <<>>, 0)
        ELSE IF ev.widget = "generate_paper"
        THEN IF Truthy(ev.text) /\ Truthy(ev.text2)
             THEN Result([ss EXCEPT
                            !.final_idea = JObj((Key("idea") :> JStr(ev.text))
                                                @@ (Key("topics") :> JStr(ev.text2))),
                            !.page = "final_paper"],
                         TRUE, FALSE, shown, <<>>, 0)
             ELSE Result(ss, FALSE, FALSE, shown \cup {ProvideWarning}, <<>>, 0)
        ELSE Result(ss, FALSE, FALSE, shown, <<>>, 0)

PaperFailed == "Failed to generate paper details"
NoIdeaWarning == "No idea selected for paper generation"

\* final_paper_page, in stages.

\* after json.loads(cleaned_response) gave parsed
paper_parsed(ss, calls, parsed) ==
    IF ~parsed.ok THEN Result(ss, FALSE, FALSE, {PaperFailed}, calls, 0)
    ELSE IF \/ parsed.val.kind # "obj"
            \/ ~PyIter(Get(parsed.val, "references", JList(<<>>))).ok
            \/ ~PyIter(Get(parsed.val, "opportunities", JList(<<>>))).ok
    THEN Result(ss, FALSE, TRUE, {}, calls, 0)
    ELSE Result(ss, FALSE, FALSE, {"Abstract"}, calls, 0)

\* after complete(model_name, prompt) gave c
paper_completed(ss, call, c) ==
    IF ~c.ok THEN Result(ss, FALSE, TRUE, {}, <<call, c.call>>, 0)
    ELSE paper_parsed(ss, <<call, c.call>>, ParseResponse(c.text))

\* paper_prompted showing the paper without a completion call
paper_prompted_cached(ss, p, b) ==
    IF ~p.ok THEN Result(ss, FALSE, TRUE, {}, <<p.call>>, 0)
    ELSE Result(ss, FALSE, FALSE, {"Abstract"}, <<p.call>>, 0)

\* after generate_final_paper_prompt gave p
paper_prompted(ss, p, b) ==
    IF ~p.ok THEN Result(ss, FALSE, TRUE, {}, <<p.call>>, 0)
    ELSE paper_completed(ss, p.call, complete(model_name, p.prompt, b.complete))

final_paper_page(ss, ev, b) ==
    IF ev.widget = "home_button" THEN home_button(ss)
    ELSE IF ~PyTruthy(ss.final_idea) THEN Result(ss, FALSE, FALSE, {NoIdeaWarning}, <<>>, 0)
    ELSE paper_prompted(ss,
                        generate_final_paper_prompt(PyStr(ss.final_idea.fields[Key("idea")]),
                                                    PyStr(ss.final_idea.fields[Key("topics")]),
                                                    b.search),
                        b)



ChatMessage(role, content) == [role |-> role, content |-> content]

\* explore_page, in stages: asked is the session after the user's message
\* was appended to chat_history

\* chat_completed with the assistant's entry put first
chat_completed_first(asked, call, c) ==
    IF ~c.ok THEN Result(asked, FALSE, TRUE, {}, <<call, c.call>>, 0)
    ELSE Result([asked EXCEPT !.chat_history = <<[role |-> "assistant", content |-> c.text]>> \o @],
                TRUE, FALSE, {}, <<call, c.call>>, 0)

\* after complete(model_name, chat_prompt) gave c
chat_completed(asked, call, c) ==
    IF ~c.ok THEN Result(asked, FALSE, TRUE, {}, <<call, c.call>>, 0)
    ELSE Result([asked EXCEPT !.chat_history = Append(@, ChatMessage("assistant", c.text))],
                TRUE, FALSE, {}, <<call, c.call>>, 0)

\* after query_cortex_search_service gave r
chat_retrieved(asked, r, ev, b) ==
    IF ~r.ok THEN Result(asked, FALSE, TRUE, {}, <<r.call>>, 0)
    ELSE chat_completed(asked, r.call,
                        complete(model_name, explore_prompt(ev.text, r.context_str), b.complete))

explore_page(ss, ev, b) ==
    IF ev.widget = "home_button" THEN home_button(ss)
    ELSE IF ev.widget = "chat_input" /\ Truthy(ev.text)
    THEN chat_retrieved([ss EXCEPT !.chat_history = Append(@, ChatMessage("user", ev.text))],
                        query_cortex_search_service(ev.text, SearchColumns, EnglishFilter, b.search),
                        ev, b)
    ELSE Result(ss, FALSE, FALSE, {}, <<>>, 0)



\* clear_conversation without the reset of domain_inputs
clear_conversation_partial(ss) ==
    Result([ss EXCEPT !.messages = <<>>,
                      !.ideas = JList(<<>>),
                      !.chat_history = <<>>,
                      !.page = "home"],
           TRUE, FALSE, {}, <<>>, 0)

\* clear_conversation with the selected and the final idea reset as well
clear_conversation_full(ss) ==
    Result([ss EXCEPT !.messages = <<>>,
                      !.ideas = JList(<<>>),
                      !.domain_inputs = <<EmptyText>>,
                      !.chat_history = <<>>,
                      !.selected_idea = None,
                      !.final_idea = None,
                      !.page = "home"],
           TRUE, FALSE, {}, <<>>, 0)

\* the "Clear conversation" branch of init_config_options
clear_conversation(ss) ==
    Result([ss EXCEPT !.messages = <<>>,
                      !.ideas = JList(<<>>),
                      !.domain_inputs = <<EmptyText>>,
                      !.chat_history = <<>>,
                      !.page = "home"],
           TRUE, FALSE, {}, <<>>, 0)

\* the navigation flag check of main
navigation_check(ss) ==
    IF ss.navigating_to_final
    THEN [ss EXCEPT !.page = "final_paper", !.navigating_to_final = FALSE]
    ELSE ss

\* pages.get(st.session_state.page, home_page)
current_page(ss) == IF ss.page \in Pages THEN ss.page ELSE "home"

\* pages[page](): the page function of the current page
dispatch(s1, page, ev, b) ==
    [page |-> page,
     result |-> CASE page = "home"        -> home_page(s1, ev)
                  [] page = "get_idea"    -> get_idea_page(s1, ev, b)
                  [] page = "review_idea" -> review_idea_page(s1, ev)
                  [] page = "final_paper" -> final_paper_page(s1, ev, b)
                  [] page = "explore"     -> explore_page(s1, ev, b)]

\* main after init_session_state gave s0: the sidebar, the navigation flag
\* check and the page function
main_seeded(s0, ev, b) ==
    IF ev.widget = "clear"
    THEN [page |-> "sidebar", result |-> clear_conversation(s0)]
    ELSE dispatch(navigation_check(s0), current_page(navigation_check(s0)), ev, b)

\* one script run of main() on session ss, with the widget event ev and the
\* backend's answers b: the Result and the page function that ran
main(ss, ev, b) == main_seeded(init_session_state(ss), ev, b)

Init ==
    /\ session_state = init_session_state(EmptySession)
    /\ rerun_pending = FALSE
    /\ run = [event |-> NoEvent, page |-> "home", raised |-> FALSE, shown |-> {},
              calls |-> <<>>, buttons |-> 0]

\* the script run m becomes the state
Commit(ev, m) ==
    /\ session_state' = m.result.ss
    /\ rerun_pending' = m.result.rerun
    /\ run' = [event |-> ev, page |-> m.page, raised |-> m.result.raised,
               shown |-> m.result.shown, calls |-> m.result.calls,
               buttons |-> m.result.buttons]

\* the script runs with widget event ev and backend answers b
ScriptRun(ev, b) == Commit(ev, main(session_state, ev, b))



\* the page the next script run renders
NextPage == current_page(navigation_check(session_state))

\* the page on screen, whose widgets the user can use
OnPage(page) == ~rerun_pending /\ session_state.page = page

\* the run st.rerun() asked for: no widget fired
Rerun ==
    /\ rerun_pending
    /\ \E b \in AnswersFor(NextPage) : ScriptRun(NoEvent, b)

\* a sidebar widget (Debug, Use chat history) changed: a run with no button fired
SidebarToggle ==
    /\ ~rerun_pending
    /\ \E b \in AnswersFor(NextPage) : ScriptRun(NoEvent, b)

ClearConversation ==
    /\ ~rerun_pending
    /\ ScriptRun(Event("clear", 0, EmptyText, EmptyText), Unused)

HomeButton ==
    /\ ~rerun_pending
    /\ session_state.page # "home"
    /\ ScriptRun(Event("home_button", 0, EmptyText, EmptyText), Unused)

GetStarted ==
    /\ OnPage("home")
    /\ ScriptRun(Event("get_idea_btn", 0, EmptyText, EmptyText), Unused)

AnalyzeNow ==
    /\ OnPage("home")
    /\ ScriptRun(Event("review_btn", 0, EmptyText, EmptyText), Unused)

Explore ==
    /\ OnPage("home")
    /\ ScriptRun(Event("explore_btn", 0, EmptyText, EmptyText), Unused)

EditDomain ==
    /\ OnPage("get_idea")
    /\ \E i \in 1..Len(session_state.domain_inputs), text \in DomainTexts, b \in IdeaAnswers :
          /\ text # session_state.domain_inputs[i]
          /\ ScriptRun(Event("domain", i, text, EmptyText), b)

AddDomain ==
    /\ OnPage("get_idea")
    /\ Len(session_state.domain_inputs) < MaxDomains
    /\ ScriptRun(Event("add_domain", 0, EmptyText, EmptyText), Unused)

EditSpecifications ==
    /\ OnPage("get_idea")
    /\ \E text \in SpecTexts, b \in IdeaAnswers :
          /\ text # session_state.specifications
          /\ ScriptRun(Event("specifications", 0, text, EmptyText), b)

GenerateIdeas ==
    /\ OnPage("get_idea")
    /\ \E b \in IdeaAnswers : ScriptRun(Event("generate", 0, EmptyText, EmptyText), b)

\* the user presses a "Develop Idea" button that the last run rendered
DevelopIdea ==
    /\ OnPage("get_idea")
    /\ run.page = "get_idea"
    /\ \E i \in 1..run.buttons, b \in IdeaAnswers :
          ScriptRun(Event("develop", i, EmptyText, EmptyText), b)

GenerateCompletePaper ==
    /\ OnPage("review_idea")
    /\ \E text \in IdeaTexts, topics \in TopicTexts :
          ScriptRun(Event("generate_paper", 0, text, topics), Unused)

SendMessage ==
    /\ OnPage("explore")
    /\ Len(session_state.chat_history) + 2 <= MaxChat
    /\ \E text \in ChatTexts, b \in Answers(ChatReplies) :
          ScriptRun(Event("chat_input", 0, text, EmptyText), b)

Next ==
    \/ Rerun
    \/ SidebarToggle
    \/ ClearConversation
    \/ HomeButton
    \/ GetStarted
    \/ AnalyzeNow
    \/ Explore
    \/ EditDomain
    \/ AddDomain
    \/ EditSpecifications
    \/ GenerateIdeas
    \/ DevelopIdea
    \/ GenerateCompletePaper
    \/ SendMessage

Spec == Init /\ [][Next]_vars

(***************************************************************************)
(* The page router.                                                        *)
(***************************************************************************)

\* C1: the page starts as home, is one of the five pages in every reachable
\* state, and a script run changes it only along these edges: on home the
\* "Get Started", "Analyze Now" and "Explore" buttons lead to get_idea,
\* review_idea and explore; "Develop Idea" leads from get_idea to
\* final_paper; "Generate Complete Paper" leads from review_idea to
\* final_paper; the home button and "Clear conversation" lead to home.
C1_PageRouter ==
    /\ session_state.page = "home"
    /\ [](session_state.page \in Pages)
    /\ [][LET from == session_state.page
              to == session_state'.page
              widget == run'.event.widget
          IN  /\ widget = "get_idea_btn" => from = "home" /\ to = "get_idea"
              /\ widget = "review_btn" => from = "home" /\ to = "review_idea"
              /\ widget = "explore_btn" => from = "home" /\ to = "explore"
              /\ widget \in {"home_button", "clear"} => to = "home"
              /\ to # from =>
                    \/ from = "home" /\ widget = "get_idea_btn" /\ to = "get_idea"
                    \/ from = "home" /\ widget = "review_btn" /\ to = "review_idea"
                    \/ from = "home" /\ widget = "explore_btn" /\ to = "explore"
                    \/ from = "get_idea" /\ widget = "develop" /\ to = "final_paper"
                    \/ from = "review_idea" /\ widget = "generate_paper" /\ to = "final_paper"
                    \/ widget \in {"home_button", "clear"} /\ to = "home"]_vars

\* a run in which "Develop Idea" led from get_idea to final_paper
C1_Witness ==
    /\ run.event.widget = "develop"
    /\ run.page = "get_idea"
    /\ session_state.page = "final_paper"

\* C2: on get_idea, review_idea, final_paper and explore the home button sets
\* the page to home and leaves every other key of the session (ideas,
\* chat_history, domain_inputs, specifications, previous_prompt,
\* selected_idea, final_idea among them) as it was.
C2_HomeButtonKeepsSession ==
    [][run'.event.widget = "home_button" =>
          /\ session_state.page \in {"get_idea", "review_idea", "final_paper", "explore"}
          /\ session_state'.page = "home"
          /\ \A key \in Keys \ {"page"} : session_state'[key] = session_state[key]]_vars

\* the home button was pressed in a session that holds ideas, a chat and a final idea
C2_Witness ==
    /\ run.event.widget = "home_button"
    /\ session_state.page = "home"
    /\ session_state.ideas # JList(<<>>)
    /\ session_state.chat_history # <<>>
    /\ session_state.final_idea # None
    /\ session_state.specifications # EmptyText

C4_ClearConversation ==
    run.event.widget = "clear" =>
        /\ session_state.ideas = JList(<<>>)
        /\ session_state.chat_history = <<>>
        /\ session_state.domain_inputs = <<EmptyText>>
        /\ session_state.page = "home"

\* "Clear conversation" in a session that had been used: a final idea had
\* been developed from typed specifications
C4_Witness ==
    /\ run.event.widget = "clear"
    /\ session_state.final_idea # None
    /\ session_state.specifications # EmptyText

(***************************************************************************)
(* init_session_state taken alone: it is applied, once and again, to a     *)
(* session that holds any part of the keys.                                *)
(***************************************************************************)
MaxRuns == 2   \* init_session_state is applied at most this many times in a row

\* what a session in use holds under each key: a value other than the default
InUse ==
    [specifications |-> <<"low cost">>,
     generate_new |-> TRUE,
     page |-> "explore",
     domain_inputs |-> <<<<"robotics">>, EmptyText>>,
     ideas |-> JList(<<IdeaB>>),
     messages |-> <<[role |-> "user", content |-> <<"what is new?">>]>>,
     chat_history |-> <<[role |-> "user", content |-> <<"what is new?">>]>>,
     previous_prompt |-> <<"what is new?">>,
     selected_idea |-> IdeaB,
     final_idea |-> JObj((Key("idea") :> JStr(<<"D">>)) @@ (Key("topics") :> JStr(EmptyText))),
     navigating_to_final |-> TRUE]

\* the value each key has after a first visit
FirstVisit ==
    [specifications |-> EmptyText,
     generate_new |-> FALSE,
     page |-> "home",
     domain_inputs |-> <<EmptyText>>,
     ideas |-> JList(<<>>),
     messages |-> <<>>,
     chat_history |-> <<>>,
     previous_prompt |-> EmptyText,
     selected_idea |-> None,
     final_idea |-> None,
     navigating_to_final |-> FALSE]

\* the sessions that hold some of the keys, with the values of a session in
\* use or with those of a first visit
PartialSessions ==
    {[key \in present |-> values[key]] : present \in SUBSET Keys, values \in {InUse, FirstVisit}}

DefaultsInit ==
    /\ session_state \in PartialSessions
    /\ rerun_pending = FALSE
    /\ run = [before |-> session_state, runs |-> 0]

\* main calls init_session_state(): run.before keeps the session it found
EnsureDefaults ==
    /\ run.runs < MaxRuns
    /\ session_state' = init_session_state(session_state)
    /\ run' = [before |-> session_state, runs |-> run.runs + 1]
    /\ UNCHANGED rerun_pending

DefaultsNext == EnsureDefaults

SpecDefaults == DefaultsInit /\ [][DefaultsNext]_vars

\* C5: init_session_state keeps the value of every key the session holds,
\* gives every key it does not hold its default, and applied a second time
\* leaves the session as the first application left it.
C5_EnsureDefaults ==
    run.runs >= 1 =>
        /\ DOMAIN session_state = Keys
        /\ \A key \in DOMAIN run.before : session_state[key] = run.before[key]
        /\ \A key \in Keys \ DOMAIN run.before :
              session_state[key] =
                 CASE key = "specifications"      -> <<>>
                   [] key = "generate_new"        -> FALSE
                   [] key = "page"                -> "home"
                   [] key = "domain_inputs"       -> << <<>> >>
                   [] key = "ideas"               -> [kind |-> "list", items |-> <<>>]
                   [] key = "messages"            -> <<>>
                   [] key = "chat_history"        -> <<>>
                   [] key = "previous_prompt"     -> <<>>
                   [] key = "selected_idea"       -> [kind |-> "null"]
                   [] key = "final_idea"          -> [kind |-> "null"]
                   [] key = "navigating_to_final" -> FALSE
        /\ run.runs >= 2 => session_state = run.before

\* init_session_state was applied twice to a session in use that held its
\* page and its final idea but no ideas and no chat
C5_Witness ==
    /\ run.runs = 2
    /\ session_state.page = "explore"
    /\ session_state.final_idea # None
    /\ session_state.ideas = JList(<<>>)
    /\ session_state.chat_history = <<>>

(***************************************************************************)
(* Idea generation.                                                        *)
(***************************************************************************)

\* C6: when the completion for the idea prompt is not valid JSON (it is
\* truncated) or is an object without the key "ideas", the run shows an
\* error, no exception leaves generate_and_display_ideas, and the session
\* keeps its ideas and every other value: only the input the user edited in
\* that run, if any, has its new text.
C6_InvalidIdeasReply ==
    [][(/\ run'.page = "get_idea"
        /\ Len(run'.calls) >= 2
        /\ run'.calls[2].proc = "CORTEX_COMPLETE_PROC"
        /\ run'.calls[2].answer.ok
        /\ run'.calls[2].answer.text \in {Truncated, NoIdeasKey}) =>
          /\ ~run'.raised
          /\ Len(run'.calls) = 2
          /\ run'.shown = IF run'.calls[2].answer.text = Truncated
                          THEN {"Error generating ideas"}
                          ELSE {"Invalid response format"}
          /\ session_state'.ideas = session_state.ideas
          /\ \A key \in Keys \ {"domain_inputs", "specifications"} :
                session_state'[key] = session_state[key]
          /\ run'.event.widget # "domain" =>
                session_state'.domain_inputs = session_state.domain_inputs
          /\ run'.event.widget # "specifications" =>
                session_state'.specifications = session_state.specifications]_vars

\* "Generate Ideas" got a truncated completion in a session that held ideas
C6_Witness ==
    /\ run.event.widget = "generate"
    /\ run.page = "get_idea"
    /\ Len(run.calls) = 2
    /\ run.calls[2].answer.text = Truncated
    /\ run.shown = {"Error generating ideas"}
    /\ session_state.ideas # JList(<<>>)

(***************************************************************************)
(* Failures of the backend, the "Develop Idea" handler, the review page    *)
(* and the reset.                                                          *)
(***************************************************************************)

\* C7: when a completion call fails during a run (a chat message on explore,
\* idea generation on get_idea, the rendering of final_paper), the error is
\* surfaced and ideas, chat_history, selected_idea, final_idea and page are
\* the same after the run as before it.
C7_FailedCompletionKeepsState ==
    [][(\E i \in 1..Len(run'.calls) :
            /\ run'.calls[i].proc = "CORTEX_COMPLETE_PROC"
            /\ ~run'.calls[i].answer.ok) =>
          /\ run'.raised \/ run'.shown # {}
          /\ \A key \in {"ideas", "chat_history", "selected_idea", "final_idea", "page"} :
                session_state'[key] = session_state[key]]_vars

\* C8: "Develop Idea" on an idea that get_idea offers sets selected_idea to
\* that idea, final_idea to that idea's description and its references
\* joined by ", ", and the next page rendered is final_paper.  It is stated
\* for the runs in which every backend call returns and no error is shown;
\* the idea offered is the one the last run stored and rendered at the
\* index of the button.
C8_DevelopIdea ==
    [][(run'.event.widget = "develop" /\ ~run'.raised /\ run'.shown = {}) =>
          LET offered == session_state.ideas.items[run'.event.index]
          IN  /\ session_state'.selected_idea = offered
              /\ session_state'.final_idea =
                    JObj((Key("idea") :> Get(offered, "description", JStr(EmptyText)))
                         @@ (Key("topics") :>
                               JStr(PyJoin(<<", ">>, Get(offered, "references", JList(<<>>))).text)))
              /\ session_state'.page = "final_paper"
              /\ rerun_pending']_vars

\* C9: on review_idea "Generate Complete Paper" leads to final_paper and
\* stores final_idea = (idea text, topics) exactly when both texts are
\* non-empty; when one is empty the page stays review_idea, the warning is
\* shown and final_idea is unchanged.
C9_GenerateCompletePaper ==
    [][run'.event.widget = "generate_paper" =>
          /\ session_state.page = "review_idea"
          /\ IF run'.event.text # <<>> /\ run'.event.text2 # <<>>
             THEN /\ session_state'.page = "final_paper"
                  /\ session_state'.final_idea =
                        [kind |-> "obj",
                         fields |-> (<<"idea">> :> [kind |-> "str", s |-> run'.event.text])
                                    @@ (<<"topics">> :> [kind |-> "str", s |-> run'.event.text2])]
             ELSE /\ session_state'.page = "review_idea"
                  /\ "Please provide both idea details and topics" \in run'.shown
                  /\ session_state'.final_idea = session_state.final_idea]_vars

\* a click with a text missing, in a session whose final idea an earlier
\* click with both texts had stored
C9_Witness ==
    /\ run.event.widget = "generate_paper"
    /\ run.event.text2 = EmptyText
    /\ session_state.page = "review_idea"
    /\ ProvideWarning \in run.shown
    /\ session_state.final_idea =
          JObj((Key("idea") :> JStr(<<"my idea">>)) @@ (Key("topics") :> JStr(<<"nlp">>)))

\* C10 as the specification states it (specifications, which is bound to a
\* widget, left aside): after "Clear conversation" every attribute has the
\* value of a first visit.
C10_ClearsFully ==
    run.event.widget = "clear" =>
        /\ session_state.page = "home"
        /\ session_state.domain_inputs = <<EmptyText>>
        /\ session_state.previous_prompt = EmptyText
        /\ session_state.ideas = JList(<<>>)
        /\ session_state.selected_idea = None
        /\ session_state.final_idea = None
        /\ session_state.chat_history = <<>>
        /\ session_state.generate_new = FALSE

\* C10, amended: "Clear conversation" gives messages, ideas, domain_inputs,
\* chat_history and page the values of a first visit and leaves
\* generate_new, previous_prompt, selected_idea, final_idea and
\* navigating_to_final as they were.
C10_ClearsConversationOnly ==
    [][run'.event.widget = "clear" =>
          /\ session_state'.messages = <<>>
          /\ session_state'.ideas = [kind |-> "list", items |-> <<>>]
          /\ session_state'.domain_inputs = << <<>> >>
          /\ session_state'.chat_history = <<>>
          /\ session_state'.page = "home"
          /\ \A key \in {"generate_new", "previous_prompt", "selected_idea",
                         "final_idea", "navigating_to_final"} :
                session_state'[key] = session_state[key]]_vars

\* "Clear conversation" left the selected idea and the final idea in place
C10_Witness ==
    /\ run.event.widget = "clear"
    /\ session_state.page = "home"
    /\ session_state.ideas = JList(<<>>)
    /\ session_state.selected_idea # None
    /\ session_state.final_idea # None

(***************************************************************************)
(* The parsing of the idea completion.                                     *)
(***************************************************************************)

\* C11: when the completion for the idea prompt is a well-formed JSON object
\* with a list under "ideas", wrapped or not in code fences and whitespace,
\* the session's ideas after the run are exactly that list, in its order and
\* with its values, and nothing of the ideas stored before.
C11_IdeasReplaced ==
    [][(/\ run'.page = "get_idea"
        /\ Len(run'.calls) >= 2
        /\ run'.calls[2].proc = "CORTEX_COMPLETE_PROC"
        /\ run'.calls[2].answer.ok) =>
          /\ run'.calls[2].answer.text = FencedAB =>
                session_state'.ideas = JList(<<IdeaA, IdeaB>>)
          /\ run'.calls[2].answer.text = PlainB =>
                session_state'.ideas = JList(<<IdeaB>>)
          /\ run'.calls[2].answer.text = Priced =>
                session_state'.ideas = JList(<<IdeaP>>)]_vars

(***************************************************************************)
(* generate_idea_prompt taken alone: it is applied to a non-empty list of  *)
(* non-empty domains and to non-empty specifications.                      *)
(***************************************************************************)
PromptDomains == {<<"robotics">>, <<"bio", "informatics">>, <<"nlp">>}
PromptSpecifications == {<<"low cost">>, <<"open", "source">>}

\* the lists of one to MaxDomains domains
DomainLists == UNION {[1..n -> PromptDomains] : n \in 1..MaxDomains}

\* what CORTEX_SEARCH_PROC answers to the query of the prompt builder
PromptSearches ==
    {SearchOk, SearchError, [ok |-> TRUE, results |-> <<>>],
     [ok |-> TRUE, results |-> <<[chunk |-> <<"a paper">>], [chunk |-> <<"a survey">>]>>]}

PromptInit ==
    /\ session_state \in [domain_inputs : DomainLists, specifications : PromptSpecifications]
    /\ rerun_pending = FALSE
    /\ run = [built |-> FALSE]

\* generate_and_display_ideas calls generate_idea_prompt(domains, specifications)
BuildIdeaPrompt ==
    /\ ~run.built
    /\ \E answer \in PromptSearches :
          run' = [built |-> TRUE,
                  p |-> generate_idea_prompt(session_state.domain_inputs,
                                             session_state.specifications, answer)]
    /\ UNCHANGED <<session_state, rerun_pending>>

PromptNext == BuildIdeaPrompt

SpecPrompt == PromptInit /\ [][PromptNext]_vars

\* C12: for a non-empty list of domains and non-empty specifications, the
\* prompt generate_idea_prompt returns contains every domain and the
\* specifications verbatim, and the query it sends is the domains followed
\* by the specifications, joined by single spaces.
C12_IdeaPrompt ==
    run.built =>
        LET domains == session_state.domain_inputs
            specifications == session_state.specifications
            parts == domains \o <<specifications>>
            spaced[n \in 1..Len(parts)] ==
                IF n = 1 THEN parts[1] ELSE spaced[n - 1] \o <<" ">> \o parts[n]
            Within(part, text) ==
                \E i \in 0..(Len(text) - Len(part)) : SubSeq(text, i + 1, i + Len(part)) = part
        IN  /\ run.p.call.proc = "CORTEX_SEARCH_PROC"
            /\ run.p.call.params.query = spaced[Len(parts)]
            /\ run.p.ok =>
                  /\ \A d \in 1..Len(domains) : Within(domains[d], run.p.prompt)
                  /\ Within(specifications, run.p.prompt)

\* a prompt built from two different domains, one of them of several words
C12_Witness ==
    /\ run.built
    /\ run.p.ok
    /\ Len(session_state.domain_inputs) = 2
    /\ session_state.domain_inputs[1] = <<"bio", "informatics">>
    /\ session_state.domain_inputs[2] = <<"nlp">>
    /\ session_state.specifications = <<"open", "source">>

(***************************************************************************)
(* The requests to the backend.                                            *)
(***************************************************************************)

\* C13: every request query_cortex_search_service sends to the search
\* procedure carries the query, the requested fields, the filter and the
\* limit; the filter of the caller (language = English) reaches the backend
\* unchanged.
C13_SearchRequest ==
    \A i \in 1..Len(run.calls) :
        run.calls[i].proc = "CORTEX_SEARCH_PROC" =>
            /\ {"query", "num_chunks"} \subseteq DOMAIN run.calls[i].params
            /\ "columns" \in DOMAIN run.calls[i].params
            /\ run.calls[i].params.columns = SearchColumns
            /\ "filter" \in DOMAIN run.calls[i].params
            /\ run.calls[i].params.filter = EnglishFilter


\* C14: on get_idea, generation runs only when "Generate Ideas" was pressed
\* or the generate_new marker is set: a run of the page with neither makes no
\* retrieval or completion call and leaves ideas as it was.
C14_GenerationOnDemand ==
    [][(/\ run'.page = "get_idea"
        /\ run'.event.widget # "generate"
        /\ ~session_state.generate_new /\ ~session_state'.generate_new) =>
          /\ run'.calls = <<>>
          /\ session_state'.ideas = session_state.ideas]_vars


\* C15: the parsing of a batch of ideas is all-or-nothing: when an element of
\* the returned "ideas" batch is not an idea object, so that processing the
\* batch ends in "Error generating ideas", the batch is discarded and
\* st.session_state.ideas keeps the value it had before the run.
C15_AllOrNothing ==
    [][(/\ run'.page = "get_idea" /\ Len(run'.calls) >= 2
        /\ run'.calls[2].proc = "CORTEX_COMPLETE_PROC" /\ run'.calls[2].answer.ok
        /\ run'.calls[2].answer.text = Mixed
        /\ ErrorGenerating \in run'.shown) =>
          session_state'.ideas = session_state.ideas]_vars


(***************************************************************************)
(* The final paper page.                                                   *)
(***************************************************************************)

\* C16: on final_paper, when the completion output is not in the expected
\* shape (a JSON syntax error, or valid JSON that is a list or a bare string
\* instead of the object), the page shows "Failed to generate paper details"
\* and no exception escapes final_paper_page.
C16_PaperFailure ==
    (/\ run.page = "final_paper" /\ Len(run.calls) >= 2
     /\ run.calls[2].proc = "CORTEX_COMPLETE_PROC" /\ run.calls[2].answer.ok
     /\ run.calls[2].answer.text \in {SubSeq(Dumps(PaperDoc), 1, 3), PaperList, PaperText}) =>
        /\ ~run.raised
        /\ PaperFailed \in run.shown


\* the step is a run of final_paper_page that got past the Home button
\* with final_idea set
C17_Rendered ==
    /\ run'.page = "final_paper"
    /\ run'.event.widget # "home_button"
    /\ PyTruthy(session_state'.final_idea)

\* the run's first call is the retrieval for its final_idea
C17_Retrieval ==
    /\ Len(run'.calls) >= 1
    /\ run'.calls[1].proc = "CORTEX_SEARCH_PROC"
    /\ run'.calls[1].params.query =
          PyStr(session_state'.final_idea.fields[Key("idea")]) \o <<" ">>
             \o PyStr(session_state'.final_idea.fields[Key("topics")])

\* C17 as stated: every render of final_paper with final_idea set issues one
\* retrieval call followed by one completion call for that final_idea,
\* repeated renders with an unchanged final_idea included.
C17_EveryRender ==
    [][C17_Rendered =>
          /\ C17_Retrieval
          /\ Len(run'.calls) = 2
          /\ run'.calls[2].proc = "CORTEX_COMPLETE_PROC"]_vars

\* C17: every render of final_paper with final_idea set issues one retrieval
\* call for that final_idea and, when the retrieval returns, one completion
\* call after it (when the retrieval raises, the run ends with that one
\* call); nothing is cached, so this holds for repeated renders with an
\* unchanged final_idea as well.
C17_NothingCached ==
    [][C17_Rendered =>
          /\ C17_Retrieval
          /\ IF run'.calls[1].answer.ok
             THEN /\ Len(run'.calls) = 2
                  /\ run'.calls[2].proc = "CORTEX_COMPLETE_PROC"
                  /\ run'.calls[2].params.model_name = model_name
             ELSE Len(run'.calls) = 1 /\ run'.raised]_vars

C17_Witness ==
    /\ run.page = "final_paper"
    /\ run.event.widget = "none"
    /\ ~rerun_pending
    /\ PyTruthy(session_state.final_idea)
    /\ Len(run.calls) = 2
    /\ run.calls[1].proc = "CORTEX_SEARCH_PROC"
    /\ run.calls[2].proc = "CORTEX_COMPLETE_PROC"


(***************************************************************************)
(* Properties the text implies.                                            *)
(***************************************************************************)

\* C18: the idea that becomes selected_idea and final_idea after "Develop
\* Idea" is the idea the previous run displayed at the position of the
\* button, whatever the backend answers in the run that processes the click.
C18_StoresDisplayedIdea ==
    [][(run'.event.widget = "develop" /\ session_state'.page = "final_paper") =>
          /\ session_state'.selected_idea = session_state.ideas.items[run'.event.index]
          /\ session_state'.final_idea.fields[Key("idea")] =
                Get(session_state.ideas.items[run'.event.index], "description", JStr(EmptyText))]_vars


\* C19: in every reachable state where the current page is final_paper (or
\* the navigation flag is about to make it so), final_idea is set, and no
\* run of final_paper_page takes the "No idea selected for paper generation"
\* branch, after any sequence of navigation, generation and "Clear
\* conversation" actions.
C19_FinalIdeaSet ==
    /\ (session_state.page = "final_paper" \/ session_state.navigating_to_final) =>
          /\ session_state.final_idea.kind = "obj"
          /\ PyTruthy(session_state.final_idea)
    /\ run.page = "final_paper" => NoIdeaWarning \notin run.shown

C19_Witness ==
    /\ session_state.page = "final_paper"
    /\ run.page = "final_paper"
    /\ "Abstract" \in run.shown
    /\ session_state.selected_idea.kind = "obj"
    /\ session_state.final_idea.fields[Key("idea")] =
          Get(session_state.selected_idea, "description", JStr(EmptyText))

====
